---- MODULE Spec2Model ----
(***************************************************************************)
(* Todo AI Chatbot backend: the task tools of mcp_server.py over the task  *)
(* table of models.py, and the chat endpoint of main.py, which resolves a  *)
(* free-text message to one tool call and renders the reply.               *)
(*                                                                         *)
(* Strings are TLA+ strings; one character of s is SubSeq(s, i, i).        *)
(* Optional values are sequences: <<>> is Python's None, <<v>> is v.       *)
(* The store is the default engine of database.py (a SQLite file).        *)
(* The wall-clock columns created_at / updated_at are left out: no         *)
(* operation reads them.                                                   *)
(***************************************************************************)
EXTENDS Integers, Sequences, FiniteSets

\* ------------------------------------------------------------- bounds
\* Largest primary key the store hands out in a run.
MaxId == 2
\* Longest chat message, in atoms of MessageAtoms.
MaxAtoms == 2

\* ------------------------------------------------------------- Python values
None == <<>>
Some(v) == <<v>>
\* Truthiness of an Optional[str] ("if title:") and an Optional[int] ("if task_id:").
TruthyStr(o) == o # None /\ o[1] # ""
TruthyInt(o) == o # None /\ o[1] # 0

\* A local variable: the value v under the name that body gives it.
With(v, body(_)) == body(v)

SetMin(S) == CHOOSE m \in S : \A k \in S : m <= k
SetMax(S) == CHOOSE m \in S : \A k \in S : k <= m

\* ------------------------------------------------------------- strings
At(s, i) == IF 1 <= i /\ i <= Len(s) THEN SubSeq(s, i, i) ELSE ""

\* The characters \s matches, of those a TLA+ string can hold.
IsSpace(c) == c = " " \/ c = "\n" \/ c = "\t" \/ c = "\r" \/ c = "\f"

IsDigit(c) == c \in {"0", "1", "2", "3", "4", "5", "6", "7", "8", "9"}

DigitAlphabet == "0123456789"
DigitChar(d) == At(DigitAlphabet, d + 1)
DigitVal(c) == (CHOOSE k \in 1..10 : At(DigitAlphabet, k) = c) - 1

UpperAlphabet == "ABCDEFGHIJKLMNOPQRSTUVWXYZ"
LowerAlphabet == "abcdefghijklmnopqrstuvwxyz"
Uppers == {At(UpperAlphabet, k) : k \in 1..26}
LowerChar(c) ==
  IF c \in Uppers
  THEN At(LowerAlphabet, CHOOSE k \in 1..26 : At(UpperAlphabet, k) = c)
  ELSE c

\* str.lower()
RECURSIVE lower(_)
lower(s) == IF s = "" THEN "" ELSE LowerChar(At(s, 1)) \o lower(SubSeq(s, 2, Len(s)))

\* "k in s"
Contains(s, k) == \E i \in 1..(Len(s) - Len(k) + 1) : SubSeq(s, i, i + Len(k) - 1) = k

\* A strip() that trims nothing: under it TitleTotalAmended fails.
strip_nothing(s) == s

\* str.strip()
strip(s) ==
  With({i \in 1..Len(s) : ~IsSpace(At(s, i))}, LAMBDA inked :
    IF inked = {} THEN "" ELSE SubSeq(s, SetMin(inked), SetMax(inked)))

\* int() of a run of digits
RECURSIVE int(_)
int(s) == IF s = "" THEN 0 ELSE 10 * int(SubSeq(s, 1, Len(s) - 1)) + DigitVal(At(s, Len(s)))

\* str() of a natural number
RECURSIVE str(_)
str(n) == IF n < 10 THEN DigitChar(n) ELSE str(n \div 10) \o DigitChar(n % 10)

\* ------------------------------------------------------------- regular expressions
\* The literal k at position i.
StartsAt(s, i, k) == i >= 1 /\ i + Len(k) - 1 <= Len(s) /\ SubSeq(s, i, i + Len(k) - 1) = k

\* How many characters a greedy \s* takes at position i.
SpaceRun(s, i) ==
  With({j \in i..Len(s) : ~IsSpace(At(s, j))}, LAMBDA stops :
    IF i > Len(s) THEN 0 ELSE IF stops = {} THEN Len(s) - i + 1 ELSE SetMin(stops) - i)

\* How many characters a greedy \d* takes at position i.
DigitRun(s, i) ==
  With({j \in i..Len(s) : ~IsDigit(At(s, j))}, LAMBDA stops :
    IF i > Len(s) THEN 0 ELSE IF stops = {} THEN Len(s) - i + 1 ELSE SetMin(stops) - i)

\* Where a greedy (.+) starting at g ends: "." matches all but a line feed.
\* g - 1 when it cannot take one character.
LineEnd(s, g) ==
  With({j \in g..Len(s) : At(s, j) = "\n"}, LAMBDA feeds :
    IF feeds = {} THEN Len(s) ELSE SetMin(feeds) - 1)

\* verb\s+(?:a\s+)?task matched at position i of the lowered text l: the
\* position after "task", or 0. Every \s+ here is followed by a letter, so it
\* takes its whole run and the match has no second way.
VerbTaskEnd(l, verb, i) ==
  With(SpaceRun(l, i + Len(verb)), LAMBDA n :
  With(i + Len(verb) + n, LAMBDA q :
  With(SpaceRun(l, q + 1), LAMBDA k :
    IF ~StartsAt(l, i, verb) \/ n = 0 THEN 0
    ELSE IF StartsAt(l, q, "a") /\ k > 0 /\ StartsAt(l, q + 1 + k, "task") THEN q + 1 + k + 4
    ELSE IF StartsAt(l, q, "task") THEN q + 4
    ELSE 0)))

\* \s+(?:to\s+)?(.+) at position p: the starts the backtracking tries for the
\* group, in its order. \s+ first takes its whole run of m; then "to" with the
\* longest run after it, down to one character; then no "to"; then \s+ gives
\* characters back one at a time, and after fewer than m no "to" can follow.
RestStarts(l, p) ==
  With(SpaceRun(l, p), LAMBDA m :
  With(p + m, LAMBDA q :
  With(SpaceRun(l, q + 2), LAMBDA n :
    (IF m > 0 /\ StartsAt(l, q, "to") THEN [j \in 1..n |-> q + 2 + (n - j + 1)] ELSE <<>>)
      \o [k \in 1..m |-> p + (m - k + 1)])))

\* The group of verb\s+(?:a\s+)?task\s+(?:to\s+)?(.+) matched at i, as <<from, to>>; <<>> if none.
VerbTaskMatchAt(s, l, verb, i) ==
  With(VerbTaskEnd(l, verb, i), LAMBDA p :
  With(IF p = 0 THEN <<>> ELSE RestStarts(l, p), LAMBDA starts :
  With({k \in 1..Len(starts) : starts[k] <= Len(s) /\ At(s, starts[k]) # "\n"}, LAMBDA good :
    IF good = {} THEN <<>>
    ELSE With(starts[SetMin(good)], LAMBDA g : <<g, LineEnd(s, g)>>))))

\* re.search(r"verb\s+(?:a\s+)?task\s+(?:to\s+)?(.+)", s, re.IGNORECASE): group(1),
\* or None. re.IGNORECASE: the match is found in l, the lowered s.
SearchVerbTask(s, l, verb) ==
  With({i \in 1..Len(s) : StartsAt(l, i, verb) /\ VerbTaskMatchAt(s, l, verb, i) # <<>>},
       LAMBDA hits :
    IF hits = {} THEN None
    ELSE With(VerbTaskMatchAt(s, l, verb, SetMin(hits)), LAMBDA g : Some(SubSeq(s, g[1], g[2]))))

\* \s+to\s+(?:my\s+)?(?:todo|task) matched at position p.
ToTodoAt(l, p) ==
  /\ IsSpace(At(l, p))
  /\ With(p + SpaceRun(l, p), LAMBDA q :
      With(q + 2 + SpaceRun(l, q + 2), LAMBDA r :
      With(SpaceRun(l, r + 2), LAMBDA j :
        /\ StartsAt(l, q, "to")
        /\ r > q + 2
        /\ \/ StartsAt(l, r, "my") /\ j > 0
              /\ (StartsAt(l, r + 2 + j, "todo") \/ StartsAt(l, r + 2 + j, "task"))
           \/ StartsAt(l, r, "todo")
           \/ StartsAt(l, r, "task"))))

\* Where a group (.+) that starts at i can end: right before one of the
\* places in rests, on the line of i.
GroupEnds(s, rests, i) == {p - 1 : p \in {r \in rests : i < r /\ r - 1 <= LineEnd(s, i)}}

\* re.search(r"(.+)\s+to\s+(?:my\s+)?(?:todo|task)", s, re.IGNORECASE): group(1),
\* or None. The match starts at the leftmost i from which a group (.+), which
\* stays on one line, can end right before a place where the rest matches;
\* the group is greedy and ends before the last such place.
SearchToTodo(s, l) ==
  With({p \in 2..Len(s) : ToTodoAt(l, p)}, LAMBDA rests :
  With({i \in 1..Len(s) : GroupEnds(s, rests, i) # {}}, LAMBDA hits :
    IF hits = {} THEN None
    ELSE With(SetMin(hits), LAMBDA i : Some(SubSeq(s, i, SetMax(GroupEnds(s, rests, i)))))))

\* The text the title is trimmed from: group(1) of the first of the three
\* patterns that matches, or the whole message when none does.
Capture(message) ==
  With(lower(message), LAMBDA l :
  With(SearchVerbTask(message, l, "add"), LAMBDA first :
    IF first # None THEN first[1]
    ELSE With(SearchVerbTask(message, l, "create"), LAMBDA second :
      IF second # None THEN second[1]
      ELSE With(SearchToTodo(message, l), LAMBDA third :
        IF third # None THEN third[1] ELSE message))))

extract_task_title(message) == strip(Capture(message))

\* re.search(r"(?:task\s+)?(\d+)", message): the leftmost match holds the
\* first run of digits, whether or not "task" comes before it.
extract_task_id(message) ==
  With({i \in 1..Len(message) : IsDigit(At(message, i))}, LAMBDA digits :
    IF digits = {} THEN None
    ELSE With(SetMin(digits), LAMBDA i :
      Some(int(SubSeq(message, i, i + DigitRun(message, i) - 1)))))
\* ------------------------------------------------------------- the store
\* models.py Task: the columns the tools read and write.
Task(user_id, title, description, completed) ==
  [user_id |-> user_id, title |-> title, description |-> description,
   completed |-> completed]

\* The id the store gives a row inserted with id = None: the id column is an
\* INTEGER PRIMARY KEY without AUTOINCREMENT, so SQLite takes one more than
\* the largest id in the table, and 1 in an empty table.
AssignId(table) == IF DOMAIN table = {} THEN 1 ELSE SetMax(DOMAIN table) + 1

\* session.get(Task, task_id): the row, or None.
SessionGet(table, task_id) ==
  IF task_id \in DOMAIN table THEN Some(table[task_id]) ELSE None

\* session.add(task); session.commit()
Put(table, id, row) == [k \in DOMAIN table \cup {id} |-> IF k = id THEN row ELSE table[k]]

\* session.delete(task); session.commit()
Remove(table, id) == [k \in DOMAIN table \ {id} |-> table[k]]

\* What a tool call leaves: the table, the exception raised ("" when none)
\* and the value returned.
Outcome(table, exc, ret) == [rows |-> table, exc |-> exc, ret |-> ret]

TaskNotFound == "Task not found"

ToolResult(id, status, title) == [task_id |-> id, status |-> status, title |-> title]

\* An add_task that stores the task as completed: under it AddThenList fails.
add_task_completed(table, user_id, title, description) ==
  LET id == AssignId(table)
      task == Task(user_id, title, description, TRUE)
  IN  Outcome(Put(table, id, task), "", ToolResult(id, "created", task.title))

add_task_tool(table, user_id, title, description) ==
  LET id == AssignId(table)
      task == Task(user_id, title, description, FALSE)
  IN  Outcome(Put(table, id, task), "", ToolResult(id, "created", task.title))

\* select(Task).where(Task.user_id == user_id), in the store's order (by id).
RECURSIVE SelectByUser(_, _, _)
SelectByUser(table, user_id, ids) ==
  IF ids = {} THEN <<>>
  ELSE LET id == SetMin(ids)
           rest == SelectByUser(table, user_id, ids \ {id})
       IN  IF table[id].user_id = user_id
           THEN <<[id |-> id, title |-> table[id].title, completed |-> table[id].completed]>> \o rest
           ELSE rest

\* A filter with the two statuses exchanged: under it ListFiltering fails.
FilterStatusSwapped(tasks, status) ==
  IF status = "pending" THEN SelectSeq(tasks, LAMBDA t : t.completed)
  ELSE IF status = "completed" THEN SelectSeq(tasks, LAMBDA t : ~t.completed)
  ELSE tasks

FilterStatus(tasks, status) ==
  IF status = "pending" THEN SelectSeq(tasks, LAMBDA t : ~t.completed)
  ELSE IF status = "completed" THEN SelectSeq(tasks, LAMBDA t : t.completed)
  ELSE tasks

list_tasks_tool(table, user_id, status) ==
  Outcome(table, "", FilterStatus(SelectByUser(table, user_id, DOMAIN table), status))

\* A guard that looks only at existence: under it OwnershipIsolation fails.
NotPresent(table, user_id, task_id) == SessionGet(table, task_id) = None

\* "if not task or task.user_id != user_id"
NotOwned(table, user_id, task_id) ==
  LET task == SessionGet(table, task_id)
  IN  task = None \/ task[1].user_id # user_id

complete_task_tool(table, user_id, task_id) ==
  IF NotOwned(table, user_id, task_id)
  THEN Outcome(table, TaskNotFound, <<>>)
  ELSE LET task == [table[task_id] EXCEPT !.completed = TRUE]
       IN  Outcome(Put(table, task_id, task), "", ToolResult(task_id, "completed", task.title))

\* An update_task that overwrites with any value that is not None, the empty
\* string included: under it UpdateOnlyProvided fails.
update_task_blank(table, user_id, task_id, title, description) ==
  IF NotOwned(table, user_id, task_id)
  THEN Outcome(table, TaskNotFound, <<>>)
  ELSE LET task == [table[task_id] EXCEPT
                      !.title = IF title # None THEN title[1] ELSE @,
                      !.description = IF description # None THEN description[1] ELSE @]
       IN  Outcome(Put(table, task_id, task), "", ToolResult(task_id, "updated", task.title))

\* An update_task that reopens the task: under it CompletionMonotone fails.
update_task_reopen(table, user_id, task_id, title, description) ==
  IF NotOwned(table, user_id, task_id)
  THEN Outcome(table, TaskNotFound, <<>>)
  ELSE LET task == [table[task_id] EXCEPT
                      !.title = IF TruthyStr(title) THEN title[1] ELSE @,
                      !.description = IF TruthyStr(description) THEN description[1] ELSE @,
                      !.completed = FALSE]
       IN  Outcome(Put(table, task_id, task), "", ToolResult(task_id, "updated", task.title))

update_task_tool(table, user_id, task_id, title, description) ==
  IF NotOwned(table, user_id, task_id)
  THEN Outcome(table, TaskNotFound, <<>>)
  ELSE LET task == [table[task_id] EXCEPT
                      !.title = IF TruthyStr(title) THEN title[1] ELSE @,
                      !.description = IF TruthyStr(description) THEN description[1] ELSE @]
       IN  Outcome(Put(table, task_id, task), "", ToolResult(task_id, "updated", task.title))

delete_task_tool(table, user_id, task_id) ==
  IF NotOwned(table, user_id, task_id)
  THEN Outcome(table, TaskNotFound, <<>>)
  ELSE Outcome(Remove(table, task_id), "", ToolResult(task_id, "deleted", table[task_id].title))

\* TOOLS, searched by name; kwargs holds every parameter, the defaults filled in.
handle_tool_call(table, tool_name, kwargs) ==
  CASE tool_name = "add_task" ->
         add_task_tool(table, kwargs.user_id, kwargs.title, kwargs.description)
    [] tool_name = "list_tasks" ->
         list_tasks_tool(table, kwargs.user_id, kwargs.status)
    [] tool_name = "complete_task" ->
         complete_task_tool(table, kwargs.user_id, kwargs.task_id)
    [] tool_name = "update_task" ->
         update_task_tool(table, kwargs.user_id, kwargs.task_id, kwargs.title, kwargs.description)
    [] tool_name = "delete_task" ->
         delete_task_tool(table, kwargs.user_id, kwargs.task_id)
    [] OTHER -> Outcome(table, "Tool '" \o tool_name \o "' not found", <<>>)

\* ------------------------------------------------------------- the chat endpoint
\* The reply texts start with an emoji; a bracketed word stands for each.
IconDone == "[check] "
IconFail == "[cross] "
IconList == "[clipboard] "
IconEmpty == "[mailbox] "
IconBin == "[bin] "
IconPencil == "[pencil] "
IconWait == "[hourglass]"
IconBot == "[robot] "

NoTitleText == IconFail \o "Could not extract task title. Please specify what task to add."
NoIdText(verb) == IconFail \o "Could not identify task ID. Please specify which task to " \o verb \o "."
NoIdOrTitleText == IconFail \o "Could not identify task ID or new title."
HelpText ==
  IconBot \o "I'm your Todo AI assistant! I can help you manage tasks. Try:\n"
    \o "* \"Add a task to buy groceries\"\n* \"Show me all my tasks\"\n"
    \o "* \"Mark task 1 as complete\"\n* \"Delete task 2\"\n* \"What's pending?\" "

\* A chain that tests the list keywords before the add keywords: under it
\* FirstMatchWins fails.
IntentListFirst(message) ==
  IF Contains(message, "list") \/ Contains(message, "show") THEN "list"
  ELSE IF Contains(message, "add") \/ Contains(message, "create") THEN "add"
  ELSE IF Contains(message, "complete") \/ Contains(message, "done") \/ Contains(message, "finish")
    THEN "complete"
  ELSE IF Contains(message, "delete") \/ Contains(message, "remove") THEN "delete"
  ELSE IF Contains(message, "update") \/ Contains(message, "change") THEN "update"
  ELSE "unknown"

\* The if / elif chain over the lowered message: the branch that runs.
Intent(message) ==
  IF Contains(message, "add") \/ Contains(message, "create") THEN "add"
  ELSE IF Contains(message, "list") \/ Contains(message, "show") THEN "list"
  ELSE IF Contains(message, "complete") \/ Contains(message, "done") \/ Contains(message, "finish")
    THEN "complete"
  ELSE IF Contains(message, "delete") \/ Contains(message, "remove") THEN "delete"
  ELSE IF Contains(message, "update") \/ Contains(message, "change") THEN "update"
  ELSE "unknown"

\* The status filter the list branch reads off the message.
ListStatus(message) ==
  IF Contains(message, "pending") THEN "pending"
  ELSE IF Contains(message, "completed") \/ Contains(message, "done") THEN "completed"
  ELSE "all"

\* "\n".join of the bullet lines of the list reply.
RECURSIVE JoinTasks(_)
JoinTasks(tasks) ==
  IF tasks = <<>> THEN ""
  ELSE LET task == tasks[1]
           line == "* " \o str(task.id) \o ": " \o task.title \o " ("
                     \o (IF task.completed THEN "[check]" ELSE IconWait) \o ")"
       IN  IF Len(tasks) = 1 THEN line ELSE line \o "\n" \o JoinTasks(Tail(tasks))

\* One call the handler made: the tool and its keyword arguments.
ToolCall(tool_name, kwargs) == [tool |-> tool_name, kwargs |-> kwargs]

\* What the try block leaves: the table, the branch, the calls made, the
\* exception that escaped ("" when none) and the reply text.
Handled(table, intent, calls, raised, response) ==
  [rows |-> table, intent |-> intent, calls |-> calls, raised |-> raised, response |-> response]

\* A branch's single tool call: an exception leaves the try block, a result
\* is rendered. "render" is the branch's success text before the title; the
\* add branch renders it whatever the result holds, the others only when the
\* result has a task_id.
Dispatch(table, intent, tool_name, kwargs, render) ==
  With(handle_tool_call(table, tool_name, kwargs), LAMBDA out :
  With(<<ToolCall(tool_name, kwargs)>>, LAMBDA calls :
    IF out.exc # "" THEN Handled(table, intent, calls, out.exc, "")
    ELSE IF intent = "add" \/ "task_id" \in DOMAIN out.ret
      THEN Handled(out.rows, intent, calls, "",
                   render \o (IF "title" \in DOMAIN out.ret THEN out.ret.title ELSE "Unknown"))
    ELSE Handled(out.rows, intent, calls, "",
                 IconFail \o (IF "error" \in DOMAIN out.ret THEN out.ret.error
                              ELSE "Unknown error"))))

\* The list branch: the status read off the message, the call, the reply.
ListBranch(table, user_id, message) ==
  With(ListStatus(message), LAMBDA status :
  With([user_id |-> user_id, status |-> status], LAMBDA kwargs :
  With(handle_tool_call(table, "list_tasks", kwargs), LAMBDA out :
  With(<<ToolCall("list_tasks", kwargs)>>, LAMBDA calls :
    IF out.exc # "" THEN Handled(table, "list", calls, out.exc, "")
    ELSE IF out.ret # <<>>
      THEN Handled(out.rows, "list", calls, "",
                   IconList \o "Your " \o status \o " tasks:\n" \o JoinTasks(out.ret))
    ELSE Handled(out.rows, "list", calls, "", IconEmpty \o "No " \o status \o " tasks found.")))))

\* The complete and the delete branch: the task id, then the call or the error text.
IdBranch(table, user_id, message, intent, tool_name, render) ==
  With(extract_task_id(message), LAMBDA task_id :
    IF TruthyInt(task_id)
    THEN Dispatch(table, intent, tool_name, [user_id |-> user_id, task_id |-> task_id[1]], render)
    ELSE Handled(table, intent, <<>>, "", NoIdText(intent)))

\* The body of the try block of chat_with_bot.
TryChat(table, user_id, request) ==
  With(lower(request.message), LAMBDA message :
  With(Intent(message), LAMBDA intent :
    CASE intent = "add" ->
           With(extract_task_title(message), LAMBDA title :
             IF title # ""
             THEN Dispatch(table, intent, "add_task",
                           [user_id |-> user_id, title |-> title,
                            description |-> "Added via chat: " \o request.message],
                           IconDone \o "Task added: ")
             ELSE Handled(table, intent, <<>>, "", NoTitleText))
      [] intent = "list" -> ListBranch(table, user_id, message)
      [] intent = "complete" ->
           IdBranch(table, user_id, message, intent, "complete_task",
                    IconDone \o "Task completed: ")
      [] intent = "delete" ->
           IdBranch(table, user_id, message, intent, "delete_task", IconBin \o "Task deleted: ")
      [] intent = "update" ->
           With(extract_task_id(message), LAMBDA task_id :
           With(extract_task_title(message), LAMBDA new_title :
             IF TruthyInt(task_id) /\ new_title # ""
             THEN Dispatch(table, intent, "update_task",
                           [user_id |-> user_id, task_id |-> task_id[1],
                            title |-> Some(new_title), description |-> None],
                           IconPencil \o "Task updated: ")
             ELSE Handled(table, intent, <<>>, "", NoIdOrTitleText)))
      [] OTHER -> Handled(table, intent, <<>>, "", HelpText)))

\* "request.conversation_id or 1"
ConversationId(request) ==
  IF TruthyInt(request.conversation_id) THEN request.conversation_id[1] ELSE 1

\* chat_with_bot: the ChatResponse, or the HTTPException of the except clause.
chat_with_bot(table, user_id, request) ==
  With(TryChat(table, user_id, request), LAMBDA done :
    [rows |-> done.rows, intent |-> done.intent, calls |-> done.calls,
     http |-> IF done.raised = ""
              THEN [status_code |-> 200, conversation_id |-> ConversationId(request),
                    response |-> done.response]
              ELSE [status_code |-> 500, detail |-> "Internal server error"]])

\* ------------------------------------------------------------- inputs
Users == {"u1", "u2"}
Statuses == {"all", "pending", "completed"}
TaskIds == 1..MaxId
AddTitles == {"x"}
\* The description the chat endpoint gives the task it adds for "add task x".
AddDescriptions == {"Added via chat: add task x"}
\* An absent, an empty and a real title for update_task.
UpdateTitles == {None, Some(""), Some("y")}
\* The conversation each user sends: u1 starts one, u2 continues number 7.
ConversationOf(u) == IF u = "u1" THEN None ELSE Some(7)
\* (title, description) arguments of update_task: each field absent, empty and given.
UpdatePairs ==
  {<<None, Some("d")>>, <<Some("y"), None>>, <<Some(""), Some("d")>>,
   <<Some("y"), Some("")>>, <<Some("y"), Some("d")>>}

\* The messages the store-level runs send through the chat endpoint.
ChatMessages == {"add task x", "done 1", "remove 2", "show pending"}

\* The message language of the chat-level runs: up to MaxAtoms atoms in a row.
MessageAtoms ==
  {"add", "create", "list", "show", "complete", "done", "finish", "delete",
   "remove", "update", "change", "pending", "Add task ", "create a task to ",
   " to my todo", " task 1", " 0", " 42", "x", " ", "\n"}

RECURSIVE Phrases(_)
Phrases(n) ==
  IF n = 0 THEN {""}
  ELSE LET shorter == Phrases(n - 1)
       IN  shorter \cup {p \o a : p \in shorter, a \in MessageAtoms}

Messages == Phrases(MaxAtoms)

Request(conversation_id, message) == [conversation_id |-> conversation_id, message |-> message]

\* The requests that carry the messages msgs, each with the user who posts it.
Posts(msgs) ==
  {[user_id |-> u, request |-> Request(ConversationOf(u), m)] : u \in Users, m \in msgs}

\* The keyword arguments of the tool calls.
AddArgs ==
  {[user_id |-> u, title |-> t, description |-> d] :
     u \in Users, t \in AddTitles, d \in AddDescriptions}
ListArgs == {[user_id |-> u, status |-> st] : u \in Users, st \in Statuses}
IdArgs == {[user_id |-> u, task_id |-> id] : u \in Users, id \in TaskIds}
RetitleArgs ==
  {[user_id |-> u, task_id |-> id, title |-> t, description |-> None] :
     u \in Users, id \in TaskIds, t \in UpdateTitles}
UpdateArgs ==
  {[user_id |-> u, task_id |-> id, title |-> td[1], description |-> td[2]] :
     u \in Users, id \in TaskIds, td \in UpdatePairs}

\* ------------------------------------------------------------- the machine
\* rows: the task table, id -> Task. last: the call made last, at the tool
\* boundary or the chat boundary, and what came back.
VARIABLES rows, last

vars == <<rows, last>>

\* A call of handle_tool_call and its outcome: the exception raised ("" when
\* none) or the value returned, ret for a tool's dict and tasks for the list
\* of list_tasks.
Call(tool_name, kwargs, out) ==
  IF out.exc # "" THEN [op |-> tool_name, kwargs |-> kwargs, exc |-> out.exc]
  ELSE IF tool_name = "list_tasks"
    THEN [op |-> tool_name, kwargs |-> kwargs, exc |-> "", tasks |-> out.ret]
  ELSE [op |-> tool_name, kwargs |-> kwargs, exc |-> "", ret |-> out.ret]

Init ==
  /\ rows = <<>>
  /\ last = [op |-> "none"]

Tool(tool_name, kwargs) ==
  \E out \in {handle_tool_call(rows, tool_name, kwargs)} :
    /\ rows' = out.rows
    /\ last' = Call(tool_name, kwargs, out)

AddTask ==
  \E kwargs \in AddArgs :
    /\ AssignId(rows) <= MaxId
    /\ Tool("add_task", kwargs)

ListTasks == \E kwargs \in ListArgs : Tool("list_tasks", kwargs)

CompleteTask == \E kwargs \in IdArgs : Tool("complete_task", kwargs)

\* update_task with a title and no description, as the chat endpoint calls it.
RetitleTask == \E kwargs \in RetitleArgs : Tool("update_task", kwargs)

\* update_task with both fields.
UpdateTask == \E kwargs \in UpdateArgs : Tool("update_task", kwargs)

DeleteTask == \E kwargs \in IdArgs : Tool("delete_task", kwargs)

\* POST /api/{user_id}/chat
Post(user_id, request) ==
  \E out \in {chat_with_bot(rows, user_id, request)} :
    /\ DOMAIN out.rows \subseteq 1..MaxId
    /\ rows' = out.rows
    /\ last' = [op |-> "chat", user_id |-> user_id, request |-> request,
                intent |-> out.intent, calls |-> out.calls, http |-> out.http]

Chat == \E post \in Posts(ChatMessages) : Post(post.user_id, post.request)

\* Every tool and the chat endpoint, over tasks whose description stays put.
Next == AddTask \/ ListTasks \/ CompleteTask \/ RetitleTask \/ DeleteTask \/ Chat

Spec == Init /\ [][Next]_vars

\* update_task with both of its fields.
NextUpdate == AddTask \/ CompleteTask \/ UpdateTask

SpecUpdate == Init /\ [][NextUpdate]_vars

\* The chat-level runs: a store holding at most one task, then one request
\* out of the whole message language, or one title extraction.
Fresh == last.op \in {"none", "add_task"}

SeedTask == rows = <<>> /\ last.op = "none" /\ AddTask

ChatAny ==
  /\ Fresh
  /\ \E post \in Posts(Messages) : Post(post.user_id, post.request)

ExtractTitle ==
  /\ Fresh
  /\ \E m \in Messages :
       /\ last' = [op |-> "extract_task_title", message |-> m, ret |-> extract_task_title(m)]
       /\ UNCHANGED rows

NextChat == SeedTask \/ ChatAny \/ ExtractTitle

SpecChat == Init /\ [][NextChat]_vars


\* ------------------------------------------------------------- properties
\* C1: complete_task, update_task or delete_task called on an existing task
\* id by a user who is not its owner fails with "Task not found" and leaves
\* the whole store as it was.
OwnershipIsolation ==
  [][(/\ last'.op \in {"complete_task", "update_task", "delete_task"}
      /\ last'.kwargs.task_id \in DOMAIN rows
      /\ rows[last'.kwargs.task_id].user_id # last'.kwargs.user_id)
     => (last'.exc = TaskNotFound /\ rows' = rows)]_vars

\* C1: a delete by the other user has just failed on one of two stored tasks.
OwnershipIsolationSeen ==
  /\ last.op = "delete_task"
  /\ last.exc = TaskNotFound
  /\ Cardinality(DOMAIN rows) = 2
  /\ last.kwargs.task_id \in DOMAIN rows
  /\ rows[last.kwargs.task_id].user_id # last.kwargs.user_id

\* C2, as the specification states it: a complete, delete or update intent
\* of the chat endpoint whose task id is missing or another user's is
\* answered by a normal reply that carries the text "Task not found".
NotFoundReplyAsStated ==
  [][(/\ last'.op = "chat"
      /\ last'.intent \in {"complete", "delete", "update"}
      /\ Len(last'.calls) = 1
      /\ NotOwned(rows, last'.user_id, last'.calls[1].kwargs.task_id))
     => (/\ last'.http.status_code = 200
         /\ Contains(last'.http.response, TaskNotFound))]_vars

\* C3: the branch that runs is that of the first rule, in the order add,
\* list, complete, delete, update, one of whose keywords occurs in the
\* lowered message, and "unknown" when none does; the request makes at most
\* one tool call, the one of that branch; a message holding both "add" and
\* "list" runs the add branch and never calls list_tasks.
FirstMatchWins ==
  last.op = "chat" =>
    LET l == lower(last.request.message)
        rules == <<[intent |-> "add", words |-> {"add", "create"}, tool |-> "add_task"],
                   [intent |-> "list", words |-> {"list", "show"}, tool |-> "list_tasks"],
                   [intent |-> "complete", words |-> {"complete", "done", "finish"},
                    tool |-> "complete_task"],
                   [intent |-> "delete", words |-> {"delete", "remove"}, tool |-> "delete_task"],
                   [intent |-> "update", words |-> {"update", "change"}, tool |-> "update_task"]>>
        hit == {k \in 1..Len(rules) : \E w \in rules[k].words : Contains(l, w)}
    IN  /\ Len(last.calls) <= 1
        /\ IF hit = {}
           THEN last.intent = "unknown" /\ last.calls = <<>>
           ELSE /\ last.intent = rules[SetMin(hit)].intent
                /\ \A i \in 1..Len(last.calls) : last.calls[i].tool = rules[SetMin(hit)].tool
        /\ (Contains(l, "add") /\ Contains(l, "list")) =>
             /\ last.intent = "add"
             /\ \A i \in 1..Len(last.calls) : last.calls[i].tool # "list_tasks"

\* C3: a message with "list" before "add" in it was handled by the add branch.
FirstMatchWinsSeen ==
  /\ last.op = "chat"
  /\ last.request.message = "listadd"
  /\ last.intent = "add"
  /\ Len(last.calls) = 1
  /\ last.calls[1].tool = "add_task"

\* C4, as the specification states it: extract_task_title of a non-empty
\* message is a non-empty string, and the add branch never answers a
\* non-empty message with "could not extract task title".
TitleTotalAsStated ==
  /\ (last.op = "extract_task_title" /\ last.message # "") => last.ret # ""
  /\ (last.op = "chat" /\ last.intent = "add" /\ last.request.message # "") =>
       (last.http.status_code = 200 => last.http.response # NoTitleText)

\* C4, amended: extract_task_title returns the capture of the first matching
\* pattern, or the whole message when none matches, without the whitespace at
\* its two ends; the result is non-empty exactly when that capture holds a
\* character that is not whitespace, and the add branch answers "could not
\* extract task title" exactly when it holds none.
TitleTotalAmended ==
  LET inked(c) == \E i \in 1..Len(c) : ~IsSpace(At(c, i))
  IN  /\ last.op = "extract_task_title" =>
           LET capture == Capture(last.message)
               ret == last.ret
           IN  /\ ret # "" <=> inked(capture)
               /\ ret # "" =>
                    /\ ~IsSpace(At(ret, 1))
                    /\ ~IsSpace(At(ret, Len(ret)))
                    /\ \E i \in 1..Len(capture) :
                         /\ StartsAt(capture, i, ret)
                         /\ ~inked(SubSeq(capture, 1, i - 1))
                         /\ ~inked(SubSeq(capture, i + Len(ret), Len(capture)))
      /\ (last.op = "chat" /\ last.intent = "add") =>
           LET capture == Capture(lower(last.request.message))
           IN  IF inked(capture)
               THEN /\ Len(last.calls) = 1
                    /\ last.http.status_code = 200
                    /\ last.http.response # NoTitleText
               ELSE /\ last.calls = <<>>
                    /\ last.http.status_code = 200
                    /\ last.http.response = NoTitleText

\* C4: the add branch answered a non-empty message with "could not extract
\* task title".
TitleTotalAmendedSeen ==
  /\ last.op = "chat"
  /\ last.intent = "add"
  /\ last.request.message # ""
  /\ last.http.status_code = 200
  /\ last.http.response = NoTitleText

\* C5: when user u has no task titled t, add_task(u, t) followed by
\* list_tasks(u, "all") lists exactly one entry titled t, not completed,
\* under the id add_task returned; the tasks stored before the add, and their
\* entries in every user's list, are as they were.
AddThenList ==
  [][(last'.op = "add_task" /\ last'.exc = "") =>
       LET u == last'.kwargs.user_id
           t == last'.kwargs.title
           id == last'.ret.task_id
           before == list_tasks_tool(rows, u, "all").ret
           after == list_tasks_tool(rows', u, "all").ret
           titled == {i \in 1..Len(after) : after[i].title = t}
       IN  /\ (\A i \in 1..Len(before) : before[i].title # t) =>
                /\ Cardinality(titled) = 1
                /\ \A i \in titled : ~after[i].completed /\ after[i].id = id
           /\ id \notin DOMAIN rows
           /\ \A k \in DOMAIN rows : k \in DOMAIN rows' /\ rows'[k] = rows[k]
           /\ \A v \in Users :
                LET old == list_tasks_tool(rows, v, "all").ret
                    new == list_tasks_tool(rows', v, "all").ret
                    kept == {i \in 1..Len(new) : new[i].id # id}
                IN  /\ Len(old) = Cardinality(kept)
                    /\ \A i \in 1..Len(old) : \E j \in kept : new[j] = old[i]]_vars

\* C5: a task titled "x" was added for a user whose one other task is titled "y".
AddThenListSeen ==
  /\ last.op = "add_task"
  /\ last.kwargs.title = "x"
  /\ \E k \in DOMAIN rows :
       /\ k # last.ret.task_id
       /\ rows[k].user_id = last.kwargs.user_id
       /\ rows[k].title = "y"
  /\ Len(list_tasks_tool(rows, last.kwargs.user_id, "all").ret) = 2

\* C6: list_tasks(owner, status) returns exactly the owner's tasks, the
\* pending ones for "pending", the completed ones for "completed" and all of
\* them for "all", each once with its stored title and flag, and changes
\* nothing; after a successful complete_task(owner, id) the task is in the
\* owner's "completed" list and not in the "pending" list.
ListFiltering ==
  [][/\ last'.op = "list_tasks" =>
          LET u == last'.kwargs.user_id
              st == last'.kwargs.status
              ret == last'.tasks
              want == {id \in DOMAIN rows :
                         /\ rows[id].user_id = u
                         /\ st = "pending" => ~rows[id].completed
                         /\ st = "completed" => rows[id].completed}
          IN  /\ rows' = rows
              /\ last'.exc = ""
              /\ {ret[i].id : i \in 1..Len(ret)} = want
              /\ Len(ret) = Cardinality(want)
              /\ \A i \in 1..Len(ret) :
                   /\ ret[i].title = rows[ret[i].id].title
                   /\ ret[i].completed = rows[ret[i].id].completed
     /\ (last'.op = "complete_task" /\ last'.exc = "") =>
          LET u == last'.kwargs.user_id
              id == last'.kwargs.task_id
              done == list_tasks_tool(rows', u, "completed").ret
              open == list_tasks_tool(rows', u, "pending").ret
          IN  /\ \E i \in 1..Len(done) : done[i].id = id
              /\ \A i \in 1..Len(open) : open[i].id # id]_vars

\* C6: the "completed" list of a user came back with that user's one task
\* while the store also holds a completed task of the other user.
ListFilteringSeen ==
  /\ last.op = "list_tasks"
  /\ last.kwargs.status = "completed"
  /\ Len(last.tasks) = 1
  /\ \E k \in DOMAIN rows : rows[k].user_id # last.kwargs.user_id /\ rows[k].completed

\* C7, as the specification states it: an id that delete_task has removed is
\* absent after any further operation, so the operation that follows a
\* successful delete_task leaves that id absent.
DeleteIsPermanentAsStated ==
  [][(last.op = "delete_task" /\ last.exc = "")
     => last.kwargs.task_id \notin DOMAIN rows']_vars

\* C8: a successful update_task changes the title only to a non-empty title
\* argument and the description only to a non-empty description argument,
\* keeps the completed flag, the owner and the id, and leaves every other
\* task as it was.
UpdateOnlyProvided ==
  [][(last'.op = "update_task" /\ last'.exc = "") =>
       LET id == last'.kwargs.task_id
           t == last'.kwargs.title
           d == last'.kwargs.description
       IN  /\ id \in DOMAIN rows
           /\ DOMAIN rows' = DOMAIN rows
           /\ rows'[id].title = IF t # None /\ t[1] # "" THEN t[1] ELSE rows[id].title
           /\ rows'[id].description =
                IF d # None /\ d[1] # "" THEN d[1] ELSE rows[id].description
           /\ rows'[id].completed = rows[id].completed
           /\ rows'[id].user_id = rows[id].user_id
           /\ last'.ret.task_id = id
           /\ \A k \in DOMAIN rows \ {id} : rows'[k] = rows[k]]_vars

\* C8: an update with only a description succeeded on a completed task, whose
\* title is still the one it was added with.
UpdateOnlyProvidedSeen ==
  /\ last.op = "update_task"
  /\ last.exc = ""
  /\ last.kwargs.title = None
  /\ last.kwargs.description = Some("d")
  /\ rows[last.kwargs.task_id].title = "x"
  /\ rows[last.kwargs.task_id].description = "d"
  /\ rows[last.kwargs.task_id].completed

\* C9, as the specification states it: a complete or delete intent is
\* answered "could not identify task ID" exactly when the message holds no
\* digit; when it holds one, the first run of digits is the task id the tool
\* of the intent is called with, 0 included.
IdFromDigitsAsStated ==
  (last.op = "chat" /\ last.intent \in {"complete", "delete"}) =>
    LET l == lower(last.request.message)
        digits == {i \in 1..Len(l) : IsDigit(At(l, i))}
        first == SetMin(digits)
        run == SubSeq(l, first, first + DigitRun(l, first) - 1)
    IN  IF digits = {}
        THEN /\ last.calls = <<>>
             /\ last.http.status_code = 200
             /\ last.http.response = NoIdText(last.intent)
        ELSE /\ Len(last.calls) = 1
             /\ last.calls[1].tool = last.intent \o "_task"
             /\ last.calls[1].kwargs.task_id = int(run)
             /\ last.http.status_code = 200 => last.http.response # NoIdText(last.intent)

\* C10: a task that is completed stays completed under every operation that
\* keeps it, and a task that an operation adds is not completed.
CompletionMonotone ==
  [][\A id \in DOMAIN rows' :
       IF id \in DOMAIN rows
       THEN rows[id].completed => rows'[id].completed
       ELSE ~rows'[id].completed]_vars

\* C10: update_task succeeded on a completed task, which is still completed.
CompletionMonotoneSeen ==
  /\ last.op = "update_task"
  /\ last.exc = ""
  /\ last.kwargs.title = Some("y")
  /\ rows[last.kwargs.task_id].completed
  /\ rows[last.kwargs.task_id].title = "y"
====
